---- MODULE Spec2Model ----
(***************************************************************************)
(* A model of plepe/video-playlist, class VideoPlaylist                    *)
(* (src/VideoPlaylist.js).  Every method of the class is an operator on a  *)
(* state record s (the object's fields plus the media engine and the DOM   *)
(* it drives); an action applies one entry point (a caller request, a      *)
(* timer callback or a media notification) to the current state and        *)
(* commits the result.  Time is discrete: one Tick is one second of wall   *)
(* clock, and of media time for every video that is playing.               *)
(*                                                                         *)
(* Indices (playlist index, actionIndex, pauseIndex) are 0-based as in the *)
(* source; TLA+ sequences are 1-based, hence the "+ 1" on every access.    *)
(***************************************************************************)
EXTENDS Integers, Sequences, FiniteSets, TLC

\* ------------------------------------------------------------------ bounds
\* number of caller requests (play, jump, seek, pause) in one behaviour
MaxOps == 2
\* number of caller requests in a behaviour of play() and jumps alone
MaxJumps == 3
\* largest virtual time a caller asks for
MaxSeek == 6

\* --------------------------------------------------------------- sentinels
\* JavaScript null (a handle's index, this.current, requestedCurrentTime)
Null == -1
\* JavaScript undefined (videoDuration before the metadata, a cursor never set)
Undefined == -2
\* the time 'end' of an action or a pause
End == -3
\* preloadListInit creates three media handles
RingSize == 3

Handles == 1..RingSize

\* ---------------------------------------------------------------- playlists
\* An action / a pause of a playlist entry.  title is TRUE when the event
\* has a title; titleDuration 0 and class "" stand for an absent property.
Action(time, title, titleDuration, classAdd, classRemove) ==
  [time |-> time, title |-> title, titleDuration |-> titleDuration,
   classAdd |-> classAdd, classRemove |-> classRemove]

Pause(time, duration, title, classAdd, classRemove) ==
  [time |-> time, duration |-> duration, title |-> title,
   classAdd |-> classAdd, classRemove |-> classRemove]

\* A playlist entry.  video: the entry has a media reference; mediaLength is
\* the duration the media engine will report for it (video.duration);
\* videoDuration is the entry's field, undefined until the metadata arrives.
MediaItem(video, mediaLength, actions, pauses) ==
  [video |-> video, mediaLength |-> mediaLength, videoDuration |-> Undefined,
   actions |-> actions, pauses |-> pauses]

\* the end-to-end scenario of the specification: clip 0 of 3 s with one
\* pause {time: 1, duration: 2}, followed by a second clip
ListScenario ==
  << MediaItem(TRUE, 3, << >>, << Pause(1, 2, FALSE, "", "") >>),
     MediaItem(TRUE, 2, << >>, << >>) >>

\* an action at time 0 (so that the clip is started), an action and a pause
\* sharing time 1, a title that is removed after 1 s, a pause of 3 s
ListTie ==
  << MediaItem(TRUE, 3,
       << Action(0, FALSE, 0, "a", ""), Action(1, TRUE, 1, "b", "") >>,
       << Pause(1, 3, TRUE, "p", "a") >>),
     MediaItem(TRUE, 2, << Action(0, FALSE, 0, "c", "") >>, << >>) >>

\* a clip with two pauses stacked at time 1, and a clip without any event
ListStacked ==
  << MediaItem(TRUE, 3,
       << Action(0, FALSE, 0, "", "") >>,
       << Pause(1, 1, FALSE, "", ""), Pause(1, 2, FALSE, "q", "") >>),
     MediaItem(TRUE, 2, << >>, << >>) >>

\* an action and a pause with the time 'end', an entry without a media
\* reference, a last clip
ListEnd ==
  << MediaItem(TRUE, 2,
       << Action(0, FALSE, 0, "", ""), Action(End, FALSE, 0, "e", "") >>,
       << Pause(End, 1, FALSE, "", "") >>),
     MediaItem(FALSE, 0, << >>, << >>),
     MediaItem(TRUE, 1, << Action(0, FALSE, 0, "", "") >>, << >>) >>

\* a first entry without a media reference, then a clip
ListSilent ==
  << MediaItem(FALSE, 0, << >>, << >>),
     MediaItem(TRUE, 1, << Action(0, FALSE, 0, "", "") >>, << >>) >>

Playlists == { ListScenario, ListTie, ListStacked, ListEnd, ListSilent }

\* ---------------------------------------------------------------- variables
VARIABLES
  list,                 \* this.list
  entries,              \* the entry objects, as the closures of the timers and
                        \* this.activePause keep them when this.list is replaced
  preloadIndex,         \* this.preloadIndex
  preloadList,          \* this.preloadList: sequence of handles
  current,              \* this.current: a handle, or Null
  handles,              \* the three {index, video} objects and their cursors
  currentTimeout,       \* this.currentTimeout: the pending next-event timer
  activePause,          \* this.activePause and its timer
  leakedPauseTimers,    \* pause timers whose activePause was overwritten
  titleTimers,          \* pending title-removal timers (never cancelled)
  domVideos,            \* handles whose <video> is a child of this.dom
  domTitles,            \* title nodes that are children of this.dom
  classList,            \* this.dom.classList
  requestedCurrentTime, \* this.requestedCurrentTime
  fault,                \* the last entry point threw (TypeError, DOMException)
  evs,                  \* events emitted by the last entry point, in order
  lastOp,               \* the last step: a request, its argument, what it found
  hist,                 \* history: what has fired, the last pending seek target
  ops                   \* number of caller requests so far

vars == << list, entries, preloadIndex, preloadList, current, handles, currentTimeout,
           activePause, leakedPauseTimers, titleTimers, domVideos, domTitles,
           classList, requestedCurrentTime, fault, evs, lastOp, hist, ops >>

\* no next-event timer pending
NoTimeout == [set |-> FALSE, entry |-> 0, time |-> 0, rem |-> 0, old |-> FALSE]

\* this.activePause === undefined
NoPause == [active |-> FALSE, entry |-> 0, pause |-> 0, title |-> 0,
            elapsed |-> 0, rem |-> 0, old |-> FALSE, partial |-> FALSE,
            classes |-> {}]

\* a handle as preloadListInit creates it: no index, no cursor, an empty
\* paused <video>
NewHandle ==
  [index |-> Null, actionIndex |-> Undefined, pauseIndex |-> Undefined,
   src |-> Null, currentTime |-> 0, paused |-> TRUE, meta |-> FALSE,
   endedEv |-> FALSE, playCmd |-> FALSE]

NoHist == [endedAll |-> 0, firedA |-> << >>, firedP |-> << >>, target |-> Null,
           applied |-> 0, stale |-> FALSE, cancelled |-> FALSE,
           overlap |-> FALSE, restored |-> TRUE, suspended |-> FALSE]

\* the state as one record, the form the methods below work on
St ==
  [list |-> list, entries |-> entries, preloadIndex |-> preloadIndex,
   preloadList |-> preloadList,
   current |-> current, handles |-> handles, currentTimeout |-> currentTimeout,
   activePause |-> activePause, leakedPauseTimers |-> leakedPauseTimers,
   titleTimers |-> titleTimers, domVideos |-> domVideos,
   domTitles |-> domTitles, classList |-> classList,
   requestedCurrentTime |-> requestedCurrentTime, fault |-> fault,
   evs |-> evs, hist |-> hist]

\* the state r an entry point leaves becomes the next state
Commit(r) ==
  \E s \in {r} :
    /\ list' = s.list
    /\ entries' = s.entries
    /\ preloadIndex' = s.preloadIndex
    /\ preloadList' = s.preloadList
    /\ current' = s.current
    /\ handles' = s.handles
    /\ currentTimeout' = s.currentTimeout
    /\ activePause' = s.activePause
    /\ leakedPauseTimers' = s.leakedPauseTimers
    /\ titleTimers' = s.titleTimers
    /\ domVideos' = s.domVideos
    /\ domTitles' = s.domTitles
    /\ classList' = s.classList
    /\ requestedCurrentTime' = s.requestedCurrentTime
    /\ fault' = s.fault
    /\ evs' = s.evs
    /\ hist' = s.hist

\* ------------------------------------------------------------------ helpers
\* global.Infinity, the "no upcoming event" value of update()
Infinity == 1000

Min(a, b) == IF a <= b THEN a ELSE b

Max(a, b) == IF a >= b THEN a ELSE b

\* the elements of a finite set of integers in ascending order
Asc(S) ==
  [k \in 1..Cardinality(S) |->
     CHOOSE x \in S : Cardinality({y \in S : y < x}) = k - 1]

\* this.list[i] is an entry (not undefined)
HasEntry(s, i) == i >= 0 /\ i < Len(s.list)

\* "index >= cursor" of the filters: false when the cursor is undefined
AtOrAfter(i, cursor) == cursor # Undefined /\ i >= cursor

\* "entry.pauses.indexOf(pause) + 1", the cursor after pause p has fired
PauseCursorAfter_Same(p) == p

PauseCursorAfter(p) == p + 1

\* "x.time >= position" of the filters: false for the time 'end'
NumericFrom(time, position) == time # End /\ time >= position

\* this.emit(e, ...): a and b identify the entry and the action or pause
Emit(s, e, a, b) ==
  [s EXCEPT !.evs = Append(@, [e |-> e, a |-> a, b |-> b])]

\* an uncaught exception: the rest of the entry point does not run
Throw(s) == [s EXCEPT !.fault = TRUE]

\* sequencing of two statements: F runs unless s already threw
Then(s, F(_)) == IF s.fault THEN s ELSE F(s)

\* ------------------------------------------------------------- media engine
\* video.duration of the media loaded into handle h
MediaLength(s, h) ==
  IF HasEntry(s, s.handles[h].src) THEN s.list[s.handles[h].src + 1].mediaLength
  ELSE 0

\* video.play(): playback that has ended restarts from the beginning
videoPlay(s, h) ==
  [s EXCEPT !.handles[h].paused = FALSE,
            !.handles[h].playCmd = TRUE,
            !.handles[h].currentTime =
               IF @ >= MediaLength(s, h) /\ MediaLength(s, h) > 0 THEN 0 ELSE @]

\* video.pause()
videoPause(s, h) == [s EXCEPT !.handles[h].paused = TRUE]

\* video.currentTime = t
videoSeek(s, h, t) ==
  [s EXCEPT !.handles[h].currentTime = Max(0, Min(t, MediaLength(s, h)))]

\* video.src = entry.video: the element loads the new media from the start
videoLoad(s, h, i) ==
  [s EXCEPT !.handles[h].src = i, !.handles[h].currentTime = 0,
            !.handles[h].paused = TRUE, !.handles[h].meta = TRUE,
            !.handles[h].endedEv = FALSE, !.handles[h].playCmd = FALSE]

\* ---------------------------------------------------------- render surface
\* a node identity not in use: the node document.createElement returns
FreshNode(s) ==
  LET used == s.domTitles \cup {t.node : t \in s.titleTimers}
                \cup (IF s.activePause.active THEN {s.activePause.title} ELSE {})
  IN CHOOSE n \in 1..(Cardinality(used) + 1) :
       n \notin used /\ \A m \in 1..(n - 1) : m \in used

\* showTitle(title): appends the node n to this.dom
showTitle(s, n) == [s EXCEPT !.domTitles = @ \cup {n}]

\* classesModify(add, remove), for class names given as strings
classesModify(s, add, remove) ==
  [s EXCEPT !.classList =
     (@ \cup (IF add # "" THEN {add} ELSE {})) \ (IF remove # "" THEN {remove} ELSE {})]

\* ------------------------------------------------------------------- timers
\* "if (this.currentTimeout) { window.clearTimeout(...); this.currentTimeout
\* = null }"; hist.cancelled tells that a pending timer has been cancelled
clearTimeout_Kept(s) == s

clearTimeout(s) ==
  [s EXCEPT !.currentTimeout = NoTimeout,
            !.hist.cancelled = @ \/ s.currentTimeout.set]

\* "this.currentTimeout = window.setTimeout(() =>
\* this.executeActionsOrPauses(entry, time), delay * 1000)"; hist.overlap
\* tells that a timer has been armed while another one was pending
setTimeout(s, e, time, delay) ==
  [s EXCEPT !.currentTimeout = [set |-> TRUE, entry |-> e, time |-> time,
                                rem |-> delay, old |-> FALSE],
            !.hist.overlap = @ \/ s.currentTimeout.set]

\* ------------------------------------------------------------------ methods
\* the methods call one another: next -> start -> update ->
\* executeActionsOrPauses -> next, and the setters likewise
RECURSIVE preloadFrom(_, _), runActions(_, _, _, _), call(_, _, _)

\* the forEach of preload(), from position k of this.preloadList.
\* this.preloadIndex++ is kept from growing past list.length, where every
\* further value gives the same result (an index that is reset to null).
preloadFrom(s, k) ==
  IF k > Len(s.preloadList) THEN s
  ELSE
    LET h == s.preloadList[k]
        i == s.preloadIndex
        s1 == [s EXCEPT !.preloadIndex = IF i >= Len(s.list) THEN i ELSE i + 1]
    IN IF s.handles[h].index # Null THEN preloadFrom(s, k + 1)
       ELSE IF i >= Len(s.list) \/ i < 0 THEN preloadFrom(s1, k + 1)
       ELSE IF ~s.list[i + 1].video
         THEN preloadFrom([s1 EXCEPT !.handles[h].index = i,
                                     !.list[i + 1].videoDuration = 0], k + 1)
         ELSE preloadFrom(videoLoad([s1 EXCEPT !.handles[h].index = i], h, i),
                          k + 1)

preload(s) == preloadFrom(s, 1)

\* this.emit('endedAll'), counted since a clip last started
emitEndedAll(s) ==
  [Emit(s, "endedAll", Null, Null) EXCEPT
     !.hist.endedAll = IF @ >= 2 THEN 2 ELSE @ + 1]

\* start(): the children of this.dom are removed (a <video> taken out of
\* the document is paused by the browser), the head of the ring becomes
\* current
start(s) ==
  LET s1 == [s EXCEPT
               !.handles = [h \in Handles |->
                  IF h \in s.domVideos THEN [s.handles[h] EXCEPT !.paused = TRUE]
                  ELSE s.handles[h]],
               !.domVideos = {}, !.domTitles = {}]
  IN IF s1.preloadList = << >>
       THEN emitEndedAll([s1 EXCEPT !.current = Null])
     ELSE
       LET h == Head(s1.preloadList)
           s2 == [s1 EXCEPT !.current = h, !.preloadList = Tail(@),
                            !.hist.firedA = << >>, !.hist.firedP = << >>]
           i == s2.handles[h].index
       IN IF i = Null THEN emitEndedAll(s2)
          ELSE IF i > Len(s2.list) THEN s2
          ELSE IF ~HasEntry(s2, i) THEN Throw(s2)
          ELSE
            LET s3 == IF s2.list[i + 1].video
                        THEN [s2 EXCEPT !.domVideos = @ \cup {h}] ELSE s2
                s4 == [Emit(s3, "next", i, Null) EXCEPT !.hist.endedAll = 0]
            IN IF s4.requestedCurrentTime > 0
                 THEN call("setCurrentTime", s4, << s4.requestedCurrentTime >>)
               ELSE call("update", [s4 EXCEPT !.handles[h].actionIndex = 0,
                                      !.handles[h].pauseIndex = 0], << >>)

\* play()
play(s) ==
  LET s1 == IF s.current = Null THEN call("start", s, << >>) ELSE s
  IN Then(s1, LAMBDA x :
       IF x.current = Null THEN Throw(x)
       ELSE IF ~HasEntry(x, x.handles[x.current].index) THEN Throw(x)
       ELSE IF x.list[x.handles[x.current].index + 1].videoDuration = 0
         THEN call("next", x, << >>)
       ELSE call("update", x, << >>))

\* update()
update(s) ==
  LET s1 == clearTimeout(s)
  IN IF s1.current = Null \/ s1.handles[s1.current].index = Null THEN s1
     ELSE
       LET h == s1.current
           e == s1.handles[h].index
           entry == s1.list[e + 1]
           currentPosition == s1.handles[h].currentTime
           nextActions ==
             {i \in 0..(Len(entry.actions) - 1) :
                /\ NumericFrom(entry.actions[i + 1].time, currentPosition)
                /\ AtOrAfter(i, s1.handles[h].actionIndex)}
           nextPauses ==
             {i \in 0..(Len(entry.pauses) - 1) :
                /\ NumericFrom(entry.pauses[i + 1].time, currentPosition)
                /\ AtOrAfter(i, s1.handles[h].pauseIndex)}
           time ==
             Min(IF nextActions # {}
                   THEN entry.actions[Asc(nextActions)[1] + 1].time ELSE Infinity,
                 IF nextPauses # {}
                   THEN entry.pauses[Asc(nextPauses)[1] + 1].time ELSE Infinity)
       IN IF time = currentPosition THEN call("executeActionsOrPauses", s1, << e, time >>)
          ELSE IF time # Infinity
            THEN setTimeout(s1, e, time, time - currentPosition)
          ELSE s1

\* end()
end(s) ==
  IF s.current = Null THEN s
  ELSE IF ~HasEntry(s, s.handles[s.current].index) THEN Throw(s)
  ELSE call("executeActionsOrPauses", s, << s.handles[s.current].index, End >>)

\* the actions.forEach of executeActionsOrPauses: acts[k..] are the indices
\* of the actions of entry e still to run
runActions(s, e, acts, k) ==
  IF k > Len(acts) THEN s
  ELSE
    LET i == acts[k]
        action == s.entries[e + 1].actions[i + 1]
        h == s.current
        s1 == [Emit([s EXCEPT !.handles[h].actionIndex = i + 1],
                    "action", e, i)
                 EXCEPT !.hist.firedA = Append(@, i)]
        n == FreshNode(s1)
        s2 == IF action.title THEN showTitle(s1, n) ELSE s1
        s3 == IF action.title /\ action.titleDuration > 0
                THEN [s2 EXCEPT !.titleTimers =
                        @ \cup {[node |-> n, rem |-> action.titleDuration]}]
              ELSE s2
    IN runActions(classesModify(s3, action.classAdd, action.classRemove),
                  e, acts, k + 1)

\* the second half of executeActionsOrPauses: the due actions (indices
\* actions) run, then the first due pause (of the indices pauses) starts
tieBreak_PauseFirst(s, e, time, actions, pauses) ==
  IF Len(pauses) > 0
    THEN Then(call("_pauseStart", s, << e, pauses[1], Null >>),
              LAMBDA x : runActions(x, e, actions, 1))
  ELSE LET s1 == runActions(s, e, actions, 1)
       IN IF time = End THEN call("next", s1, << >>)
          ELSE IF s.current = Null THEN Throw(s1)
          ELSE call("update", videoPlay(s1, s.current), << >>)

\* "const pause = pauses.shift()": the first of the due pauses
firstDue_Last(pauses) == pauses[Len(pauses)]

firstDue(pauses) == pauses[1]

\* "time === 'end'"
isEnd_Never(time) == FALSE

isEnd(time) == time = End

tieBreak(s, e, time, actions, pauses) ==
  LET s1 == runActions(s, e, actions, 1)
  IN IF Len(pauses) > 0 THEN call("_pauseStart", s1, << e, firstDue(pauses), Null >>)
     ELSE IF isEnd(time) THEN call("next", s1, << >>)
     ELSE IF s.current = Null THEN Throw(s1)
     ELSE call("update", videoPlay(s1, s.current), << >>)

\* executeActionsOrPauses(entry, time): entry is list[e]
executeActionsOrPauses(s, e, time) ==
  IF s.activePause.active THEN s
  ELSE
    LET entry == s.entries[e + 1]
        h == s.current
    \* this.current.actionIndex is read for the first event at this time
    IN IF h = Null /\ (\/ \E i \in 1..Len(entry.actions) : entry.actions[i].time = time
                       \/ \E i \in 1..Len(entry.pauses) : entry.pauses[i].time = time)
         THEN Throw(s)
       ELSE
         LET actions ==
               IF h = Null THEN << >>
               ELSE Asc({i \in 0..(Len(entry.actions) - 1) :
                           /\ entry.actions[i + 1].time = time
                           /\ AtOrAfter(i, s.handles[h].actionIndex)})
             pauses ==
               IF h = Null THEN << >>
               ELSE Asc({i \in 0..(Len(entry.pauses) - 1) :
                           /\ entry.pauses[i + 1].time = time
                           /\ AtOrAfter(i, s.handles[h].pauseIndex)})
         IN tieBreak(s, e, time, actions, pauses)

\* a sorted sequence with x inserted
InsertSorted(seq, x) ==
  LET k == Cardinality({i \in 1..Len(seq) : seq[i] <= x})
  IN SubSeq(seq, 1, k) \o << x >> \o SubSeq(seq, k + 1, Len(seq))

\* _pauseStart(entry, pause, duration): pause is list[e].pauses[p]; duration
\* is Null for the default.  activePause.start is kept as the time elapsed
\* since it, (new Date().getTime() - start) / 1000.
_pauseStart(s, e, p, duration) ==
  IF s.current = Null THEN Throw(s)
  ELSE
    LET h == s.current
        pause == s.entries[e + 1].pauses[p + 1]
        s1 == [videoPause(s, h) EXCEPT !.handles[h].pauseIndex = PauseCursorAfter(p)]
        s2 == IF s1.activePause.active
                THEN [s1 EXCEPT !.leakedPauseTimers =
                        InsertSorted(@, s1.activePause.rem)]
              ELSE s1
        n == FreshNode([s2 EXCEPT !.activePause = NoPause])
        s3 == [s2 EXCEPT !.activePause =
                 [active |-> TRUE, entry |-> e, pause |-> p,
                  title |-> IF pause.title THEN n ELSE 0,
                  elapsed |-> IF duration = Null THEN 0
                              ELSE pause.duration - duration,
                  rem |-> IF duration = Null THEN pause.duration
                          ELSE Max(0, duration),
                  old |-> FALSE, partial |-> duration # Null,
                  classes |-> s.classList],
               !.hist.firedP = Append(@, p),
               !.hist.applied = IF @ >= 2 THEN 2 ELSE @ + 1]
        s4 == Emit(s3, "pauseStart", e, p)
        s5 == IF pause.title THEN showTitle(s4, n) ELSE s4
    IN classesModify(s5, pause.classAdd, pause.classRemove)

\* this.activePause = undefined
clearActivePause_Kept(s) == s

clearActivePause(s) == [s EXCEPT !.activePause = NoPause]

\* _pauseEnd(); hist.applied counts the pauses applied and not reverted,
\* hist.stale tells that the pause ended had outlived a reposition,
\* hist.restored that the classes are those from before the pause
\* (activePause.classes, kept by _pauseStart)
_pauseEnd(s) ==
  IF ~s.activePause.active THEN s
  ELSE
    LET e == s.activePause.entry
        p == s.activePause.pause
        title == s.activePause.title
        pause == s.entries[e + 1].pauses[p + 1]
        s1 == [Emit(s, "pauseEnd", e, p) EXCEPT
                 !.hist.applied = IF @ <= -2 THEN -2 ELSE @ - 1,
                 !.hist.stale = s.activePause.old]
        s2 == IF title # 0 /\ title \in s1.domTitles
                THEN [s1 EXCEPT !.domTitles = @ \ {title}] ELSE s1
        s3 == classesModify(s2, pause.classRemove, pause.classAdd)
        s4 == [s3 EXCEPT !.hist.restored =
                 (s3.classList = s.activePause.classes)]
    IN call("executeActionsOrPauses", clearActivePause(s4), << e, pause.time >>)

\* next()
next(s) ==
  LET s1 == clearTimeout(s)
      s2 == IF s1.current # Null
              THEN [Emit(s1, "ended", s1.handles[s1.current].index, Null) EXCEPT
                      !.handles[s1.current].index = Null,
                      !.preloadList = Append(@, s1.current),
                      !.current = Null]
            ELSE s1
      s3 == call("start", preload(s2), << >>)
  IN Then(s3, LAMBDA x :
       IF x.current # Null /\ x.handles[x.current].index # Null
            /\ x.handles[x.current].index # 0
         THEN call("play", x, << >>) ELSE x)

\* durationIndex(index); Null is the null it returns
durationIndex_Raw(s, index) ==
  IF ~HasEntry(s, index) THEN Null
  ELSE IF s.list[index + 1].videoDuration = Undefined THEN Null
  ELSE s.list[index + 1].videoDuration

durationIndex(s, index) ==
  IF ~HasEntry(s, index) THEN Null
  ELSE IF s.list[index + 1].videoDuration = Undefined THEN Null
  ELSE LET pauses == s.list[index + 1].pauses
           sum[k \in 0..Len(pauses)] ==
             IF k = 0 THEN 0 ELSE sum[k - 1] + pauses[k].duration
       IN s.list[index + 1].videoDuration + sum[Len(pauses)]

\* get duration: the durations that are null (or 0) are filtered out, the
\* rest is summed up
duration(s) ==
  LET known == {i \in 0..(Len(s.list) - 1) :
                  durationIndex(s, i) # Null /\ durationIndex(s, i) # 0}
      sum[k \in 0..Len(s.list)] ==
        IF k = 0 THEN 0
        ELSE sum[k - 1] + (IF (k - 1) \in known THEN durationIndex(s, k - 1) ELSE 0)
  IN sum[Len(s.list)]

\* the sum of the durations of the pauses with the indices (0-based) in S
SumDurations(pauses, S) ==
  LET sum[k \in 0..Len(pauses)] ==
        IF k = 0 THEN 0
        ELSE sum[k - 1] + (IF (k - 1) \in S THEN pauses[k].duration ELSE 0)
  IN sum[Len(pauses)]

\* get currentCurrentTime, for a current handle with an entry
currentCurrentTime(s) ==
  LET h == s.current
      entry == s.list[s.handles[h].index + 1]
      pauses == {i \in 0..(Len(entry.pauses) - 1) :
                   s.handles[h].pauseIndex # Undefined
                   /\ i < s.handles[h].pauseIndex}
      \* pauses.pop() drops the last one while a pause is active
      counted == IF s.activePause.active /\ pauses # {}
                   THEN pauses \ {Asc(pauses)[Cardinality(pauses)]}
                 ELSE pauses
  IN s.handles[h].currentTime
       + (IF s.activePause.active THEN s.activePause.elapsed ELSE 0)
       + SumDurations(entry.pauses, counted)

\* the filter of set currentCurrentTime: walks the pauses from index k with
\* the running videoTime; yields the indices kept and the final videoTime
RECURSIVE filterPauses(_, _, _, _)
filterPauses(pauses, k, videoTime, kept) ==
  IF k >= Len(pauses) THEN [kept |-> kept, videoTime |-> videoTime]
  ELSE IF pauses[k + 1].time # End /\ videoTime >= pauses[k + 1].time
    THEN filterPauses(pauses, k + 1, videoTime - pauses[k + 1].duration,
                      Append(kept, k))
  ELSE filterPauses(pauses, k + 1, videoTime, kept)

\* set currentCurrentTime (time).  A time of Null counts as 0 in the
\* comparisons, as null does; with Undefined every comparison is false.
setCurrentCurrentTime(s, time) ==
  IF s.current = Null THEN s
  ELSE IF ~HasEntry(s, s.handles[s.current].index) THEN s
  ELSE
    LET e == s.handles[s.current].index
        entry == s.list[e + 1]
        s1 == IF s.activePause.active THEN call("_pauseEnd", s, << >>) ELSE s
        t0 == IF time = Null THEN 0 ELSE time
        f == filterPauses(entry.pauses, 0, t0, << >>)
    IN Then(s1, LAMBDA x :
         IF time = Undefined \/ Len(f.kept) = 0 THEN x
         ELSE
           LET p == f.kept[Len(f.kept)]
               pause == entry.pauses[p + 1]
               t1 == t0 - SumDurations(entry.pauses,
                                       {f.kept[j] : j \in 1..(Len(f.kept) - 1)})
               h == x.current
           IN IF h = Null THEN Throw(x)
              ELSE IF t1 < pause.time + pause.duration
                THEN Then(call("_pauseStart", videoSeek(x, h, pause.time), << e, p, t1 - pause.time >>),
                          LAMBDA y : videoSeek(y, h, pause.time))
              ELSE
                Then(IF x.activePause.active THEN call("_pauseEnd", x, << >>) ELSE x,
                     LAMBDA y :
                       IF y.current = Null THEN Throw(y)
                       ELSE videoPlay(
                              videoSeek([y EXCEPT
                                           !.handles[y.current].pauseIndex = p + 1],
                                        y.current, f.videoTime),
                              y.current)))

\* get currentTime
currentTime(s) ==
  IF s.current = Null THEN 0
  ELSE IF ~HasEntry(s, s.handles[s.current].index) THEN Null
  ELSE
    LET before[k \in 0..s.handles[s.current].index] ==
          IF k = 0 THEN 0
          ELSE before[k - 1]
                 + (IF durationIndex(s, k - 1) = Null THEN 0
                    ELSE durationIndex(s, k - 1))
    IN currentCurrentTime(s) + before[s.handles[s.current].index]

\* the for loop of set currentTime: yields the index it stops at, the
\* remaining time, and whether it stopped at an unknown duration
RECURSIVE scanDurations(_, _, _)
scanDurations(s, index, restTime) ==
  IF index >= Len(s.list)
    THEN [index |-> index, restTime |-> restTime, unknown |-> FALSE]
  ELSE IF durationIndex(s, index) = Null
    THEN [index |-> index, restTime |-> restTime, unknown |-> TRUE]
  ELSE IF restTime - durationIndex(s, index) < 0
    THEN [index |-> index, restTime |-> restTime, unknown |-> FALSE]
  ELSE scanDurations(s, index + 1, restTime - durationIndex(s, index))

\* set currentTime (time)
setCurrentTime(s, time) ==
  LET s1 == [s EXCEPT !.requestedCurrentTime = Null]
      r == scanDurations(s1, 0, time)
  IN IF r.unknown
       THEN call("setIndex", [s1 EXCEPT !.requestedCurrentTime = r.restTime], << r.index >>)
     ELSE IF s1.current = Null THEN Throw(s1)
     ELSE Then(IF s1.handles[s1.current].index # r.index
                 THEN call("setIndex", s1, << r.index >>) ELSE s1,
               LAMBDA x : call("setCurrentCurrentTime", x, << r.restTime >>))

\* close(): the children of this.dom are removed as in start(); no timer
\* is cancelled
close(s) ==
  LET s1 == IF s.current # Null THEN videoPause(s, s.current) ELSE s
  IN [s1 EXCEPT
        !.current = Null, !.preloadList = << >>, !.list = << >>,
        !.handles = [h \in Handles |->
           IF h \in s1.domVideos THEN [s1.handles[h] EXCEPT !.paused = TRUE]
           ELSE s1.handles[h]],
        !.domVideos = {}, !.domTitles = {}]

\* pause()
pause(s) == IF s.current # Null THEN videoPause(s, s.current) ELSE s

\* "if (!this.preloadList.length) { this.preloadIndex = index }"
reseed_Kept(s, index) == s

reseed_Always(s, index) == [s EXCEPT !.preloadIndex = index]

reseed(s, index) ==
  IF Len(s.preloadList) = 0 THEN [s EXCEPT !.preloadIndex = index] ELSE s

\* "entry.index = null" of the handle h shifted off the ring
dropIndex(s, h) == [s EXCEPT !.handles[h].index = Null]

\* the while loop of set index: handles shifted off the ring lose their index
RECURSIVE skipPreloaded(_, _, _)
skipPreloaded(s, index, jump) ==
  IF Len(s.preloadList) > 0 /\ s.handles[Head(s.preloadList)].index # index
    THEN skipPreloaded([dropIndex(s, Head(s.preloadList)) EXCEPT
                          !.preloadList = Tail(@)],
                       index, Append(jump, Head(s.preloadList)))
  ELSE [reseed(s, index) EXCEPT !.preloadList = @ \o jump]

\* set index (index)
setIndex(s, index) ==
  IF s.current # Null /\ s.handles[s.current].index = index
    THEN Then(call("setCurrentCurrentTime", s, << s.requestedCurrentTime >>),
              LAMBDA x : call("update", x, << >>))
  ELSE call("next", skipPreloaded(s, index, << >>), << >>)

\* the handler of onloadedmetadata of handle h
onloadedmetadata(s, h) ==
  IF Len(s.list) = 0 THEN s
  ELSE IF s.handles[h].index = Null THEN s
  ELSE
    LET s1 == Emit([s EXCEPT !.list[s.handles[h].index + 1].videoDuration =
                               MediaLength(s, h)],
                   "loadedmetadata", s.handles[h].index, Null)
    IN IF s1.requestedCurrentTime > 0
         THEN call("setCurrentTime", s1, << s1.requestedCurrentTime >>)
       ELSE s1

\* a call of one method by another
call(m, s, a) ==
  CASE m = "start" -> start(s)
    [] m = "play" -> play(s)
    [] m = "update" -> update(s)
    [] m = "executeActionsOrPauses" -> executeActionsOrPauses(s, a[1], a[2])
    [] m = "_pauseStart" -> _pauseStart(s, a[1], a[2], a[3])
    [] m = "_pauseEnd" -> _pauseEnd(s)
    [] m = "next" -> next(s)
    [] m = "setCurrentCurrentTime" -> setCurrentCurrentTime(s, a[1])
    [] m = "setCurrentTime" -> setCurrentTime(s, a[1])
    [] m = "setIndex" -> setIndex(s, a[1])

\* ------------------------------------------------------------ initial state
\* the constructor: the fields, preloadListInit() and preload()
Constructed(l) ==
  preload([list |-> l, entries |-> l, preloadIndex |-> 0, preloadList |-> << 1, 2, 3 >>,
           current |-> Null, handles |-> [h \in Handles |-> NewHandle],
           currentTimeout |-> NoTimeout, activePause |-> NoPause,
           leakedPauseTimers |-> << >>, titleTimers |-> {},
           domVideos |-> {}, domTitles |-> {}, classList |-> {},
           requestedCurrentTime |-> Undefined, fault |-> FALSE,
           evs |-> << >>, hist |-> NoHist])

Init ==
  \E l \in Playlists :
    LET s == Constructed(l)
    IN /\ list = s.list
       /\ entries = s.entries
       /\ preloadIndex = s.preloadIndex
       /\ preloadList = s.preloadList
       /\ current = s.current
       /\ handles = s.handles
       /\ currentTimeout = s.currentTimeout
       /\ activePause = s.activePause
       /\ leakedPauseTimers = s.leakedPauseTimers
       /\ titleTimers = s.titleTimers
       /\ domVideos = s.domVideos
       /\ domTitles = s.domTitles
       /\ classList = s.classList
       /\ requestedCurrentTime = s.requestedCurrentTime
       /\ fault = s.fault
       /\ evs = s.evs
       /\ hist = s.hist
       /\ lastOp = [op |-> "none", arg |-> 0, clip |-> Null, slot |-> Null]
       /\ ops = 0

\* ------------------------------------------------------------------ actions
\* lastOp after a step that is no caller request
NoOp == [op |-> "none", arg |-> 0, clip |-> Null, slot |-> Null]

\* the index of the current clip (Null without one), as a request finds it
Clip == IF current = Null THEN Null ELSE handles[current].index

\* the handle of the look-ahead ring that has claimed index k (Null if none)
RingSlot(k) ==
  IF \E j \in 1..Len(preloadList) : handles[preloadList[j]].index = k
    THEN preloadList[CHOOSE j \in 1..Len(preloadList) :
                       handles[preloadList[j]].index = k]
  ELSE Null

\* the state an entry point starts from: nothing emitted or thrown yet
Entry == [St EXCEPT !.evs = << >>, !.fault = FALSE]

\* a caller request repositions: the timers and the pause that are pending
\* now were armed for the state being left
Leaving ==
  [Entry EXCEPT !.currentTimeout.old = Entry.currentTimeout.set,
                !.activePause.old = Entry.activePause.active,
                !.hist.suspended = FALSE]

\* the caller calls play()
Play ==
  /\ Commit(play([Entry EXCEPT !.hist.suspended = FALSE]))
  /\ lastOp' = [op |-> "play", arg |-> 0, clip |-> Clip, slot |-> Null]
  /\ ops' = ops + 1

\* the caller sets index = k (k = list.length: past the last entry)
Jump(k) ==
  /\ Commit(setIndex([Leaving EXCEPT !.hist.target = Null], k))
  /\ lastOp' = [op |-> "index", arg |-> k, clip |-> Clip, slot |-> RingSlot(k)]
  /\ ops' = ops + 1

\* the caller sets currentTime = t; hist.target keeps t when a clip at or
\* before it has no known duration yet
SetCurrentTime(t) ==
  /\ Commit(setCurrentTime(
              [Leaving EXCEPT !.hist.target =
                 IF scanDurations(St, 0, t).unknown THEN t ELSE Null], t))
  /\ lastOp' = [op |-> "currentTime", arg |-> t, clip |-> Clip, slot |-> Null]
  /\ ops' = ops + 1

\* the caller sets currentCurrentTime = t
SetCurrentCurrentTime(t) ==
  /\ Commit(setCurrentCurrentTime([Leaving EXCEPT !.hist.target = Null], t))
  /\ lastOp' = [op |-> "currentCurrentTime", arg |-> t, clip |-> Clip,
                slot |-> Null]
  /\ ops' = ops + 1

\* the caller calls pause(); hist.suspended tells that the caller has
\* suspended a clip while no scheduled pause was active and has made no
\* request since
UserPause ==
  /\ Commit(pause([Entry EXCEPT !.hist.suspended =
                     current # Null /\ ~activePause.active]))
  /\ lastOp' = [op |-> "pause", arg |-> 0, clip |-> Clip, slot |-> Null]
  /\ ops' = ops + 1

\* the caller calls close()
Close ==
  /\ Commit(close(Entry))
  /\ lastOp' = [op |-> "close", arg |-> 0, clip |-> Clip, slot |-> Null]
  /\ ops' = ops + 1

\* a media notification (seeked, seeking, playing, pause, play) of a handle:
\* each handler emits the event and calls update()
Notify ==
  /\ Commit(update(Entry))
  /\ lastOp' = [NoOp EXCEPT !.op = "update"]
  /\ UNCHANGED ops

\* the loadedmetadata notification of handle h
LoadedMetadata(h) ==
  /\ handles[h].meta
  /\ Commit(onloadedmetadata([Entry EXCEPT !.handles[h].meta = FALSE], h))
  /\ lastOp' = NoOp
  /\ UNCHANGED ops

\* the ended notification of handle h: onended calls end(); lastOp keeps the
\* clip whose media has ended and the clip that is current
Ended(h) ==
  /\ handles[h].endedEv
  /\ Commit(end([Entry EXCEPT !.handles[h].endedEv = FALSE]))
  /\ lastOp' = [NoOp EXCEPT !.op = "ended", !.arg = handles[h].src,
                            !.clip = Clip]
  /\ UNCHANGED ops

\* the next-event timer fires: () => this.executeActionsOrPauses(entry, time)
FireNext ==
  /\ currentTimeout.set /\ currentTimeout.rem = 0
  /\ Commit(executeActionsOrPauses([Entry EXCEPT !.currentTimeout = NoTimeout],
                                   currentTimeout.entry, currentTimeout.time))
  /\ lastOp' = NoOp
  /\ UNCHANGED ops

\* the timer of the active pause fires: () => this._pauseEnd()
FirePause ==
  /\ activePause.active /\ activePause.rem = 0
  /\ Commit(_pauseEnd(Entry))
  /\ lastOp' = NoOp
  /\ UNCHANGED ops

\* a pause timer whose pause was overwritten fires: () => this._pauseEnd()
FireLeakedPause ==
  /\ Len(leakedPauseTimers) > 0 /\ leakedPauseTimers[1] = 0
  /\ Commit(_pauseEnd([Entry EXCEPT !.leakedPauseTimers = Tail(@)]))
  /\ lastOp' = NoOp
  /\ UNCHANGED ops

\* a title-removal timer fires: () => this.dom.removeChild(title), which
\* throws when the node is no child of this.dom any more
FireTitle(t) ==
  /\ t \in titleTimers /\ t.rem = 0
  /\ Commit(IF t.node \in domTitles
              THEN [Entry EXCEPT !.titleTimers = @ \ {t},
                                 !.domTitles = @ \ {t.node}]
            ELSE Throw([Entry EXCEPT !.titleTimers = @ \ {t}]))
  /\ lastOp' = NoOp
  /\ UNCHANGED ops

\* a handle's video is playing: it has media, is not paused and has not
\* reached the end
Playing(h) ==
  /\ handles[h].src # Null
  /\ ~handles[h].paused
  /\ handles[h].currentTime < MediaLength(St, h)

\* one second passes: no timer is due and no notification is waiting (the
\* metadata of a file arrives within the second in which it was assigned)
Tick ==
  /\ ~(currentTimeout.set /\ currentTimeout.rem = 0)
  /\ ~(activePause.active /\ activePause.rem = 0)
  /\ ~(Len(leakedPauseTimers) > 0 /\ leakedPauseTimers[1] = 0)
  /\ \A t \in titleTimers : t.rem > 0
  /\ \A h \in Handles : ~handles[h].endedEv /\ ~handles[h].meta
  /\ handles' = [h \in Handles |->
       IF Playing(h)
         THEN [handles[h] EXCEPT
                 !.currentTime = @ + 1,
                 !.endedEv = (handles[h].currentTime + 1 = MediaLength(St, h))]
       ELSE handles[h]]
  /\ currentTimeout' = IF currentTimeout.set
                         THEN [currentTimeout EXCEPT !.rem = @ - 1]
                       ELSE currentTimeout
  /\ activePause' = IF activePause.active
                      THEN [activePause EXCEPT !.rem = @ - 1, !.elapsed = @ + 1]
                    ELSE activePause
  /\ leakedPauseTimers' = [k \in 1..Len(leakedPauseTimers) |->
                             leakedPauseTimers[k] - 1]
  /\ titleTimers' = {[t EXCEPT !.rem = @ - 1] : t \in titleTimers}
  /\ evs' = << >>
  /\ fault' = FALSE
  /\ lastOp' = NoOp
  /\ UNCHANGED << list, entries, preloadIndex, preloadList, current, domVideos,
                  domTitles, classList, requestedCurrentTime, hist, ops >>

\* what the media engine, the timers and the clock do
Environment ==
  \/ Notify
  \/ \E h \in Handles : LoadedMetadata(h)
  \/ \E h \in Handles : Ended(h)
  \/ FireNext
  \/ FirePause
  \/ \E t \in titleTimers : FireTitle(t)
  \/ Tick

\* every caller request, in any order and at any time
Request ==
  \/ Play
  \/ \E k \in 0..Len(list) : Jump(k)
  \/ \E t \in 0..MaxSeek : SetCurrentTime(t)
  \/ \E t \in 0..MaxSeek : SetCurrentCurrentTime(t)
  \/ UserPause

\* FireLeakedPause is an action of Next alone: only a seek overwrites an
\* active pause
Next ==
  \/ ops < MaxOps /\ Request
  \/ Environment
  \/ FireLeakedPause

Spec == Init /\ [][Next]_vars

\* play() and jumps alone
JumpRequest ==
  \/ Play
  \/ \E k \in 0..Len(list) : Jump(k)

NextJump ==
  \/ ops < MaxJumps /\ JumpRequest
  \/ Environment

SpecJump == Init /\ [][NextJump]_vars

\* natural playback: play() and pause(), timers and notifications
NextPlayback ==
  \/ ops < MaxOps /\ (Play \/ UserPause)
  \/ Environment

SpecPlayback == Init /\ [][NextPlayback]_vars

\* close() has run: this.list is empty (no playlist of Playlists is)
Closed == list = << >>

\* natural playback that the caller closes at any moment; the caller makes
\* no request of a closed playlist
NextClose ==
  \/ ops < MaxOps /\ ~Closed /\ (Play \/ UserPause \/ Close)
  \/ Environment

SpecClose == Init /\ [][NextClose]_vars

\* -------------------------------------------------------------- properties
StrictlyIncreasing(seq) == \A j \in 1..(Len(seq) - 1) : seq[j] < seq[j + 1]

\* C1: within one clip instance (hist.firedA and hist.firedP list what has
\* fired since start() made the clip current), under any interleaving of
\* timers, notifications and pause completions, every action and every
\* pause fires at most once and never after one with a larger index
C1_MonotonicCursor ==
  StrictlyIncreasing(hist.firedA) /\ StrictlyIncreasing(hist.firedP)

\* both stacked pauses of a clip have fired after its action, and a
\* notification calls update() again at the position of the pauses
C1_Witness ==
  /\ Len(hist.firedA) = 1 /\ Len(hist.firedP) = 2
  /\ current # Null /\ handles[current].currentTime = 1

\* C2: immediately after a reposition or clip change (index, currentTime
\* or currentCurrentTime setter) no next-event timer and no pause timer
\* armed for the state that was left is pending, and the active pause, if
\* any, is one entered for the new position
C2_RepositionCancels ==
  lastOp.op \in {"index", "currentTime", "currentCurrentTime"} =>
    /\ ~(currentTimeout.set /\ currentTimeout.old)
    /\ ~(activePause.active /\ activePause.old)
    /\ leakedPauseTimers = << >>

\* the window of pause p of an entry in the virtual time of its clip
WindowStart(entry, p) ==
  entry.pauses[p + 1].time + SumDurations(entry.pauses, 0..(p - 1))

WindowEnd(entry, p) == WindowStart(entry, p) + entry.pauses[p + 1].duration

InWindow(entry, p, t) ==
  /\ entry.pauses[p + 1].time # End
  /\ WindowStart(entry, p) <= t /\ t < WindowEnd(entry, p)

\* the clip and the offset in it a request asks for: a currentCurrentTime
\* request names the offset in the clip it finds, a currentTime request a
\* time of the whole playlist
Target ==
  IF lastOp.op = "currentCurrentTime"
    THEN [clip |-> lastOp.clip, offset |-> lastOp.arg]
  ELSE LET r == scanDurations(St, 0, lastOp.arg)
       IN [clip |-> IF r.unknown THEN Null ELSE r.index, offset |-> r.restTime]

Seeked ==
  /\ lastOp.op \in {"currentTime", "currentCurrentTime"}
  /\ ~fault
  /\ HasEntry(St, Target.clip)
  /\ durationIndex(St, Target.clip) # Null
  /\ Target.offset < durationIndex(St, Target.clip)

\* C3: a seek to a target inside the window of a pause leaves the engine at
\* pause.time and that pause active with its timer armed for what remains
\* of the window, pause.time + pause.duration - target
C3_SeekIntoPause ==
  Seeked =>
    \A p \in 0..(Len(list[Target.clip + 1].pauses) - 1) :
      InWindow(list[Target.clip + 1], p, Target.offset) =>
        /\ current # Null /\ handles[current].index = Target.clip
        /\ handles[current].currentTime = list[Target.clip + 1].pauses[p + 1].time
        /\ activePause.active /\ activePause.entry = Target.clip
        /\ activePause.pause = p
        /\ activePause.rem = WindowEnd(list[Target.clip + 1], p) - Target.offset

\* C4: a seek to a target inside a clip with known durations and outside
\* every pause window is read back: the virtual time is the target
C4_RoundTrip ==
  (/\ Seeked
   /\ \A p \in 0..(Len(list[Target.clip + 1].pauses) - 1) :
        ~InWindow(list[Target.clip + 1], p, Target.offset))
  => /\ current # Null /\ handles[current].index = Target.clip
     /\ currentCurrentTime(St) = Target.offset

\* the duration of clip i once its metadata is known
FullDuration(i) ==
  (IF list[i + 1].video THEN list[i + 1].mediaLength ELSE 0)
    + SumDurations(list[i + 1].pauses, 0..(Len(list[i + 1].pauses) - 1))

\* the clip a time t of the whole playlist lies in (Len(list) past the end)
RECURSIVE ClipAt(_, _)
ClipAt(i, t) ==
  IF i >= Len(list) THEN i
  ELSE IF t < FullDuration(i) THEN i
  ELSE ClipAt(i + 1, t - FullDuration(i))

\* C5: a currentTime request made while a clip at or before the target had
\* no known duration is pending; when the metadata notification that makes
\* the durations up to the target known has been handled, playback is in
\* the clip the target lies in
C5_PendingTarget ==
  (/\ hist.target # Null
   /\ ClipAt(0, hist.target) < Len(list)
   /\ \E k \in 1..Len(evs) : evs[k].e = "loadedmetadata"
   /\ \A i \in 0..ClipAt(0, hist.target) : durationIndex(St, i) # Null)
  => current # Null /\ handles[current].index = ClipAt(0, hist.target)

\* the actions of an entry that share the time of its pause p
SameTime(entry, p) ==
  {i \in 0..(Len(entry.actions) - 1) :
     entry.actions[i + 1].time = entry.pauses[p + 1].time}

\* C6: when a pause of the current clip starts (pauseStart is among the
\* events of the step), every action of the clip with the time of the pause
\* has fired in this clip instance, the 'action' events of the step come in
\* list order and none of them follows pauseStart, the class of the last
\* such action is set, and the engine is suspended
C6_ActionsBeforePause ==
  \A k \in 1..Len(evs) :
    (/\ evs[k].e = "pauseStart"
     /\ current # Null /\ handles[current].index = evs[k].a)
    => LET entry == list[evs[k].a + 1]
           started == entry.pauses[evs[k].b + 1]
           same == SameTime(entry, evs[k].b)
       IN /\ \A i \in same :
               /\ \E j \in 1..Len(hist.firedA) : hist.firedA[j] = i
               /\ i < handles[current].actionIndex
          /\ \A j \in 1..Len(evs) :
               (evs[j].e = "action" /\ evs[j].a = evs[k].a /\ evs[j].b \in same)
                 => j < k
          /\ \A i, j \in 1..Len(evs) :
               (evs[i].e = "action" /\ evs[j].e = "action" /\ i < j)
                 => evs[i].b < evs[j].b
          /\ \A i \in same :
               (/\ \A j \in same : j <= i
                /\ entry.actions[i + 1].classAdd # ""
                /\ entry.actions[i + 1].classAdd # started.classRemove)
               => entry.actions[i + 1].classAdd \in classList
          /\ handles[current].paused

\* the step in which the timer of a clip fires at a time that an action and
\* a pause share: the action has run and the pause has started
C6_Witness ==
  \E j, k \in 1..Len(evs) :
    /\ j < k
    /\ evs[j].e = "action" /\ evs[k].e = "pauseStart" /\ evs[j].a = evs[k].a
    /\ evs[j].b \in SameTime(list[evs[k].a + 1], evs[k].b)
    /\ current # Null /\ handles[current].index = evs[k].a

\* C7: while the playlist is exhausted (endedAll emitted and no clip
\* started since) endedAll has been emitted once, also after further jumps
\* past the end, and no next-event, pause or title-removal timer is pending
C7_EndedAllOnce ==
  /\ hist.endedAll <= 1
  /\ hist.endedAll = 1 =>
       /\ ~currentTimeout.set
       /\ ~activePause.active
       /\ leakedPauseTimers = << >>
       /\ titleTimers = {}

\* C8: over play() and index jumps in any order (so also a jump away from
\* clip A while one of its pauses is active and a jump back) a pause that
\* was applied is reverted once: the pauses applied and not reverted are
\* exactly the active one, a class a pause adds is set exactly while that
\* pause is active, and the revert (pauseEnd) never fails on a title that
\* is gone already
C8_RevertedOnce ==
  /\ hist.applied = IF activePause.active THEN 1 ELSE 0
  /\ \A c \in UNION {{list[i].pauses[p].classAdd : p \in 1..Len(list[i].pauses)} :
                      i \in 1..Len(list)} \ {""} :
       c \in classList <=>
         /\ activePause.active
         /\ list[activePause.entry + 1].pauses[activePause.pause + 1].classAdd = c
  /\ (\E k \in 1..Len(evs) : evs[k].e = "pauseEnd") => ~fault

\* the pause timer fires after a jump back to clip A: the pause of A that
\* was active during the jumps is reverted while A is current again
C8_Witness ==
  /\ lastOp.op = "none" /\ ops = MaxJumps
  /\ hist.stale
  /\ \E k \in 1..Len(evs) :
       /\ evs[k].e = "pauseEnd"
       /\ current # Null /\ handles[current].index = evs[k].a
       /\ list[evs[k].a + 1].pauses[evs[k].b + 1].classAdd # ""

\* a playlist of two clips whose clip 0 has one pause, at a time T < D
TwoClipScenarios ==
  /\ Len(list) = 2
  /\ list[1].video /\ Len(list[1].pauses) = 1
  /\ list[1].pauses[1].time # End
  /\ list[1].pauses[1].time < list[1].mediaLength

\* C9: in natural playback of such a playlist pauseStart of clip 0 comes
\* when its engine position is T, the pause then lasts P seconds (its timer
\* and the time elapsed add up to P), 'ended' of clip 0 comes at engine
\* position D, and clip 1 starts ('next') only after 'ended' of clip 0
C9_TwoClipOrder ==
  TwoClipScenarios =>
    /\ \A k \in 1..Len(evs) :
         (evs[k].e = "pauseStart" /\ evs[k].a = 0) =>
           /\ current # Null /\ handles[current].index = 0
           /\ handles[current].currentTime = list[1].pauses[1].time
    /\ (activePause.active /\ activePause.entry = 0) =>
         activePause.rem + activePause.elapsed = list[1].pauses[1].duration
    /\ \A k \in 1..Len(evs) :
         (evs[k].e = "ended" /\ evs[k].a = 0) =>
           \E h \in Handles : /\ handles[h].src = 0
                              /\ handles[h].currentTime = list[1].mediaLength
    /\ \A k \in 1..Len(evs) :
         (evs[k].a = 1 /\ evs[k].e # "loadedmetadata") =>
           \E j \in 1..(k - 1) : evs[j].e = "ended" /\ evs[j].a = 0

\* play() was the last request, it did not throw, and clip i, which has a
\* media reference, is current
PlayCalledOn(i) ==
  /\ lastOp.op = "play" /\ ~fault
  /\ current # Null /\ handles[current].index = i
  /\ HasEntry(St, i) /\ list[i + 1].video

\* video.play() has been called on the element that holds the media of clip i
EnginePlayed(i) ==
  \E h \in Handles : handles[h].src = i /\ handles[h].playCmd

\* nothing is pending: no timer, no notification, no video that plays; only
\* a caller request can change the state
Quiescent ==
  /\ ~currentTimeout.set /\ ~activePause.active
  /\ leakedPauseTimers = << >> /\ titleTimers = {}
  /\ \A h \in Handles : ~handles[h].meta /\ ~handles[h].endedEv /\ ~Playing(h)

\* C10: after play() on a clip with a media reference the play command of
\* the media engine is eventually invoked for that clip: when play() leaves
\* nothing pending that could invoke it later, it has been invoked
C10_PlayStartsEngine ==
  \A i \in 0..(Len(list) - 1) :
    (PlayCalledOn(i) /\ Quiescent) => EnginePlayed(i)

\* C11: the callback of a timer armed for a clip state that a jump, an
\* advance or a seek has superseded is dropped.  For the pause-end timer:
\* in a step that is no caller request, no pauseEnd is emitted for a pause
\* that was active when a request repositioned (hist.stale)
C11_StaleTimerDropped ==
  lastOp.op = "none" =>
    \A k \in 1..Len(evs) : evs[k].e = "pauseEnd" => ~hist.stale

\* the last request was a jump to a valid index k that was not the index
\* of the current clip
Jumped(k) ==
  /\ lastOp.op = "index" /\ lastOp.arg = k /\ lastOp.clip # k
  /\ HasEntry(St, k)

\* the indices the handles of the look-ahead ring have claimed, in ring order
RingIndices ==
  [j \in 1..Len(preloadList) |-> handles[preloadList[j]].index]

DurationKnown(i) == HasEntry(St, i) /\ list[i + 1].videoDuration # Undefined

\* C13: durationIndex(i) is the raw duration of clip i plus the sum of the
\* durations of all its pauses once the raw duration is known (for a clip
\* with a media reference: the duration the engine reports plus the
\* pauses), and null while it is not known or when i names no entry
C13_DurationIndex ==
  \A i \in (-1)..Len(list) :
    /\ DurationKnown(i) =>
         /\ durationIndex(St, i) =
              list[i + 1].videoDuration
                + SumDurations(list[i + 1].pauses, 0..(Len(list[i + 1].pauses) - 1))
         /\ list[i + 1].video => durationIndex(St, i) = FullDuration(i)
    /\ ~DurationKnown(i) => durationIndex(St, i) = Null

\* the duration of a clip with pauses is known and exceeds its raw duration
\* while that of another clip is still unknown
C13_Witness ==
  \E i, j \in 0..(Len(list) - 1) :
    /\ DurationKnown(i) /\ Len(list[i + 1].pauses) > 0
    /\ durationIndex(St, i) > list[i + 1].videoDuration
    /\ ~DurationKnown(j) /\ durationIndex(St, j) = Null

\* C14: the total virtual duration (get duration) is the explicit unknown
\* value whenever the duration of at least one clip is still unknown, and
\* never a number that leaves those clips out
C14_UnknownTotal ==
  (\E i \in 0..(Len(list) - 1) : durationIndex(St, i) = Null)
    => duration(St) = Null

\* the last request asked for a position beyond the list: an index >=
\* list.length, or a virtual time >= the total duration while every
\* duration was known
PastTheEnd ==
  \/ lastOp.op = "index" /\ lastOp.arg >= Len(list)
  \/ /\ lastOp.op = "currentTime" /\ hist.target = Null
     /\ \A i \in 0..(Len(list) - 1) : durationIndex(St, i) = FullDuration(i)
     /\ ClipAt(0, lastOp.arg) >= Len(list)

\* C15: a jump or a virtual-time request beyond the list is treated as
\* reaching the end: endedAll is emitted, no clip is current afterwards and
\* no fault is raised
C15_PastTheEnd ==
  PastTheEnd =>
    /\ ~fault
    /\ \E k \in 1..Len(evs) : evs[k].e = "endedAll"
    /\ Clip = Null

\* C16: no public operation (play, pause, the index and the time setters)
\* raises a fault in any reachable state, also before the first clip has
\* been started and after the playlist has been exhausted
C16_NoFault ==
  lastOp.op \in {"play", "pause", "index", "currentTime", "currentCurrentTime"}
    => ~fault

\* C17: at most one next-event timer is pending at every moment: under
\* any interleaving of notifications that call update(), pause completions,
\* jumps and seeks, no next-event timer has been armed while another one
\* was pending (every arming follows the cancellation of the previous one)
C17_OneNextTimer == ~hist.overlap

\* a notification has called update() while a timer was pending: the timer
\* was cancelled and a new one is armed
C17_Witness ==
  /\ lastOp.op = "update"
  /\ hist.cancelled
  /\ currentTimeout.set /\ ~currentTimeout.old

\* the pauses of an entry that share the time of its pause p and come
\* before it / after it in the list
StackedBefore(entry, p) ==
  {q \in 0..(p - 1) : entry.pauses[q + 1].time = entry.pauses[p + 1].time}

StackedAfter(entry, p) ==
  {q \in (p + 1)..(Len(entry.pauses) - 1) :
     entry.pauses[q + 1].time = entry.pauses[p + 1].time}

\* C18: in natural playback the pauses stacked at one (numeric) time are
\* entered one after another in list order, each once: a pause starts only
\* when those stacked before it have fired; when one of them completes the
\* resolver runs again at its time, so that the next one starts in the same
\* step; and the play command reaches the engine only when the last one
\* has completed (until then the engine stays suspended)
C18_StackedPauses ==
  /\ StrictlyIncreasing(hist.firedP)
  /\ \A k \in 1..Len(evs) :
       (evs[k].e = "pauseStart" /\ list[evs[k].a + 1].pauses[evs[k].b + 1].time # End)
       => \A q \in StackedBefore(list[evs[k].a + 1], evs[k].b) :
            \E j \in 1..Len(hist.firedP) : hist.firedP[j] = q
  /\ \A k \in 1..Len(evs) :
       (evs[k].e = "pauseEnd" /\ list[evs[k].a + 1].pauses[evs[k].b + 1].time # End)
       => IF StackedAfter(list[evs[k].a + 1], evs[k].b) # {}
            THEN /\ k < Len(evs)
                 /\ evs[k + 1] = [e |-> "pauseStart", a |-> evs[k].a,
                                  b |-> evs[k].b + 1]
                 /\ activePause.active /\ activePause.pause = evs[k].b + 1
                 /\ current # Null /\ handles[current].paused
          ELSE /\ ~activePause.active
               /\ current # Null /\ ~handles[current].paused
  /\ (activePause.active /\ current # Null) => handles[current].paused

\* the first of two stacked pauses completes and the second one starts
C18_Witness ==
  \E k \in 1..(Len(evs) - 1) :
    /\ evs[k].e = "pauseEnd"
    /\ StackedAfter(list[evs[k].a + 1], evs[k].b) # {}
    /\ evs[k + 1].e = "pauseStart" /\ evs[k + 1].b = evs[k].b + 1
    /\ activePause.active

\* the pauses of an entry whose window lies before the offset t of its clip
PausesBefore(entry, t) ==
  {p \in 0..(Len(entry.pauses) - 1) :
     entry.pauses[p + 1].time # End /\ WindowEnd(entry, p) <= t}

\* the media position that belongs to the offset t (outside every window)
MediaPosition(entry, t) == t - SumDurations(entry.pauses, PausesBefore(entry, t))

\* C19: after a seek within the current clip to a target outside every
\* pause window both cursors are recomputed from the target: pauseIndex is
\* the number of pauses before it, and actionIndex counts every action
\* before the target's media position and none after it (also one that had
\* fired before a seek backward)
C19_CursorsRecomputed ==
  (/\ Seeked /\ Target.clip = lastOp.clip
   /\ \A p \in 0..(Len(list[Target.clip + 1].pauses) - 1) :
        ~InWindow(list[Target.clip + 1], p, Target.offset))
  => LET entry == list[Target.clip + 1]
         position == MediaPosition(entry, Target.offset)
     IN /\ current # Null /\ handles[current].index = Target.clip
        /\ handles[current].pauseIndex
             = Cardinality(PausesBefore(entry, Target.offset))
        /\ \A i \in 0..(Len(entry.actions) - 1) :
             /\ NumericFrom(entry.actions[i + 1].time, 0)
                  /\ entry.actions[i + 1].time < position
                => i < handles[current].actionIndex
             /\ NumericFrom(entry.actions[i + 1].time, position + 1)
                => i >= handles[current].actionIndex

\* the time of the first event of a list (of actions or of pauses) with a
\* numeric time and an index >= cursor; Infinity when there is none
FirstUndone(events, cursor) ==
  LET undone == {i \in 0..(Len(events) - 1) :
                   AtOrAfter(i, cursor) /\ events[i + 1].time # End}
  IN IF undone = {} THEN Infinity ELSE events[Asc(undone)[1] + 1].time

\* the wake time of the current clip: the minimum of the first undone
\* action time and the first undone pause time
WakeTime ==
  LET entry == list[handles[current].index + 1]
  IN Min(FirstUndone(entry.actions, handles[current].actionIndex),
         FirstUndone(entry.pauses, handles[current].pauseIndex))

\* C20: when a notification has called update() for the current clip, the
\* wake time is the minimum of the first undone action time and the first
\* undone pause time.  If update() executed nothing: no timer is armed when
\* there is no undone event; an event due at the current position is left
\* only while a pause is active; otherwise one timer is armed for the wake
\* time, (wake time - position) seconds ahead.  If it executed events, they
\* are events due at the current position.
C20_NextWake ==
  (/\ lastOp.op = "update" /\ ~fault
   /\ current # Null /\ HasEntry(St, handles[current].index))
  => LET position == handles[current].currentTime
         entry == list[handles[current].index + 1]
     IN /\ evs = << >> =>
             /\ WakeTime = Infinity => ~currentTimeout.set
             /\ WakeTime = position =>
                  activePause.active /\ ~currentTimeout.set
             /\ WakeTime \notin {Infinity, position} =>
                  /\ currentTimeout.set
                  /\ currentTimeout.entry = handles[current].index
                  /\ currentTimeout.time = WakeTime
                  /\ currentTimeout.rem = WakeTime - position
        /\ \A k \in 1..Len(evs) :
             /\ evs[k].e = "action" =>
                  entry.actions[evs[k].b + 1].time = position
             /\ evs[k].e = "pauseStart" =>
                  entry.pauses[evs[k].b + 1].time = position

\* the events of the last step that are an action or the start of a pause
\* with the time 'end'
EndEvents ==
  {k \in 1..Len(evs) :
     \/ evs[k].e = "action" /\ list[evs[k].a + 1].actions[evs[k].b + 1].time = End
     \/ evs[k].e = "pauseStart" /\ list[evs[k].a + 1].pauses[evs[k].b + 1].time = End}

\* C21: an action or a pause with the time 'end' is never scheduled through
\* the timer of update(); it fires only in the step in which the media
\* engine signals the end of its own clip while that clip is current (a
\* pause also when a pause at 'end' before it completes), and once per clip
\* instance, however often the end is signalled
C21_EndEvents ==
  /\ currentTimeout.set => currentTimeout.time # End
  /\ \A k \in EndEvents :
       \/ lastOp.op = "ended" /\ lastOp.arg = evs[k].a /\ lastOp.clip = evs[k].a
       \/ \E j \in 1..(k - 1) :
            /\ evs[j].e = "pauseEnd" /\ evs[j].a = evs[k].a
            /\ list[evs[j].a + 1].pauses[evs[j].b + 1].time = End
  /\ HasEntry(St, Clip) =>
       /\ \A i, j \in 1..Len(hist.firedA) :
            (/\ hist.firedA[i] = hist.firedA[j]
             /\ hist.firedA[i] < Len(list[Clip + 1].actions)
             /\ list[Clip + 1].actions[hist.firedA[i] + 1].time = End) => i = j
       /\ \A i, j \in 1..Len(hist.firedP) :
            (/\ hist.firedP[i] = hist.firedP[j]
             /\ hist.firedP[i] < Len(list[Clip + 1].pauses)
             /\ list[Clip + 1].pauses[hist.firedP[i] + 1].time = End) => i = j

\* C22: when a pause with the time 'end' completes (and no further pause
\* at 'end' follows it), the step emits 'ended' for its clip right after the
\* pauseEnd, the clip is no longer current, and no play command has reached
\* the engine of the ended clip (no handle that holds its media plays)
C22_EndPauseAdvances ==
  \A k \in 1..Len(evs) :
    (/\ evs[k].e = "pauseEnd"
     /\ list[evs[k].a + 1].pauses[evs[k].b + 1].time = End
     /\ StackedAfter(list[evs[k].a + 1], evs[k].b) = {})
    => /\ k < Len(evs)
       /\ evs[k + 1] = [e |-> "ended", a |-> evs[k].a, b |-> Null]
       /\ Clip # evs[k].a
       /\ \A h \in Handles : handles[h].src = evs[k].a => handles[h].paused

\* the pause at 'end' of a clip has completed, the clip has ended and a later
\* clip has started
C22_Witness ==
  \E k \in 1..Len(evs) :
    /\ evs[k].e = "pauseEnd"
    /\ list[evs[k].a + 1].pauses[evs[k].b + 1].time = End
    /\ HasEntry(St, Clip) /\ Clip > evs[k].a
    /\ \E j \in (k + 1)..Len(evs) : evs[j].e = "next" /\ evs[j].a = Clip

\* C23: after a pause exits, by its timer or by a seek, the class set of
\* the render surface is the class set it had immediately before that
\* pause was entered
C23_ClassesRestored == hist.restored

\* C24: at every moment at most one pause is active and at most one pause
\* timer is pending, and a pause timer is pending only while its pause is
\* the active one: no pause timer is left pending by a pause that another
\* pause has replaced
C24_OnePauseTimer == leakedPauseTimers = << >>

\* C25: while a pause of the current clip is active the virtual position
\* of the clip is the engine position plus the durations of the pauses
\* before the active one plus the time elapsed in the active pause; and
\* right after a seek to a target e seconds into the window of a pause the
\* elapsed time of that pause is e and the virtual position is the target
C25_VirtualPosition ==
  /\ (/\ activePause.active /\ HasEntry(St, Clip)
      /\ activePause.entry = Clip)
     => currentCurrentTime(St)
          = handles[current].currentTime
              + SumDurations(list[Clip + 1].pauses, 0..(activePause.pause - 1))
              + activePause.elapsed
  /\ Seeked =>
       \A p \in 0..(Len(list[Target.clip + 1].pauses) - 1) :
         InWindow(list[Target.clip + 1], p, Target.offset) =>
           /\ activePause.active /\ activePause.pause = p
           /\ activePause.elapsed
                = Target.offset - WindowStart(list[Target.clip + 1], p)
           /\ HasEntry(St, Clip) /\ currentCurrentTime(St) = Target.offset

\* the events of the last step that start or end a pause
PauseEvents == {k \in 1..Len(evs) : evs[k].e \in {"pauseStart", "pauseEnd"}}

\* C26: pauseStart and pauseEnd alternate and are matched: no pause is
\* started while another is open (hist.applied, the number of pauses
\* started and not ended, is 0 or 1), and of two successive pause events of
\* one step the first is a pauseStart exactly when the second is a pauseEnd,
\* which then names the same pause
C26_PauseEventsAlternate ==
  /\ hist.applied \in {0, 1}
  /\ \A j, k \in PauseEvents :
       (j < k /\ \A i \in PauseEvents : ~(j < i /\ i < k))
       => /\ evs[j].e # evs[k].e
          /\ evs[k].e = "pauseEnd" => (evs[j].a = evs[k].a /\ evs[j].b = evs[k].b)

\* the handles held by this.current and this.preloadList, in that order
HeldHandles ==
  (IF current = Null THEN << >> ELSE << current >>) \o preloadList

\* C27: the current clip and the look-ahead ring hold exactly three media
\* handles, each of the three once, and no two of them claim the same
\* playlist index
C27_ThreeHandles ==
  /\ Len(HeldHandles) = RingSize
  /\ {HeldHandles[k] : k \in 1..Len(HeldHandles)} = Handles
  /\ \A g, h \in Handles :
       (g # h /\ handles[g].index # Null) => handles[g].index # handles[h].index

\* a jump back has reseeded the ring: the clip jumped to is current and the
\* ring holds the indices that follow it
C27_Witness ==
  /\ lastOp.op = "index" /\ lastOp.clip # Null /\ lastOp.arg < lastOp.clip
  /\ current # Null /\ handles[current].index = lastOp.arg
  /\ Len(preloadList) = 2
  /\ handles[preloadList[1]].index = lastOp.arg + 1
  /\ Len(list) > lastOp.arg + 1

\* C28: after the caller has suspended playback with pause() while no
\* scheduled pause was active, and until the next request of the caller, the
\* engine of the current clip stays paused, and no action is emitted whose
\* time the engine position has not reached
C28_StaysSuspended ==
  (hist.suspended /\ current # Null)
  => /\ handles[current].paused
     /\ \A k \in 1..Len(evs) :
          (/\ evs[k].e = "action"
           /\ list[evs[k].a + 1].actions[evs[k].b + 1].time # End)
          => handles[current].currentTime
               >= list[evs[k].a + 1].actions[evs[k].b + 1].time

\* the number of endedAll events of the last step
EndedAllEvents == Cardinality({k \in 1..Len(evs) : evs[k].e = "endedAll"})

\* C29: no step leaves the sequencer on an entry without a media
\* reference: such an entry is skipped wherever it is, index 0 included;
\* and a step that skips one and finds no further entry emits endedAll
\* exactly once
C29_SilentSkipped ==
  /\ HasEntry(St, Clip) => list[Clip + 1].video
  /\ (/\ \E k \in 1..Len(evs) :
           evs[k].e = "ended" /\ HasEntry(St, evs[k].a) /\ ~list[evs[k].a + 1].video
      /\ Clip = Null /\ ~fault)
     => EndedAllEvents = 1

\* C30: no step after close() emits an event, throws, or changes the
\* classes, the titles or the media of the render surface, the current
\* clip, or the active pause: every timer armed before close() and every
\* media notification is without effect
C30_ClosedIsInert ==
  [][Closed => /\ evs' = << >>
               /\ ~fault'
               /\ classList' = classList
               /\ domTitles' = domTitles /\ domVideos' = domVideos
               /\ current' = current
               /\ activePause'.active = activePause.active]_vars

\* C31: at most one title-removal timer is pending, and a title-removal
\* timer that fires finds its title still on the render surface: it never
\* acts on a title that a clip change has already detached
C31_OneTitleTimer ==
  [][/\ Cardinality(titleTimers') <= 1
     /\ \A t \in titleTimers :
          (t.rem = 0 /\ titleTimers' = titleTimers \ {t})
          => (t.node \in domTitles /\ ~fault')]_vars

====
